---- MODULE Spec2Model ----
(***************************************************************************)
(* A model of whisper/whisperv5/whisper.go: the envelope pool (add,        *)
(* expire, update, postEvent, addDecryptedMessage) and the key store       *)
(* (AddSymKey, GenerateSymKey, HasSymKey, DeleteSymKey).                   *)
(*                                                                         *)
(* Numbers are scaled down so that the state space is finite and small:    *)
(* uint32 arithmetic is arithmetic modulo UintMod (2^32 in the program),   *)
(* and the package constants that whisper.go only names (SynchAllowance,   *)
(* MaxMessageLength, AESNonceMaxLength, saltLength, MinimumPoW,            *)
(* EnvelopeVersion) keep their role with small values.  Byte slices whose  *)
(* only use is len() are modelled by their length.                         *)
(***************************************************************************)
EXTENDS Integers, Sequences, FiniteSets, TLC

(* ------------------------------ bounds -------------------------------- *)
MinNow == 30          \* the clock's value when the node is constructed
ClockSpan == 1        \* the clock advances at most this far
MaxCalls == 2         \* calls of add in one behaviour, each in a goroutine of its own

MaxKeyCalls == 3      \* calls into the key store in one behaviour, each in a goroutine
MaxIdCalls == 2       \* calls of NewIdentity and DeleteIdentity in one behaviour
MaxPeers == 2         \* peers that connect in one behaviour
MaxMarks == 2         \* calls of MarkPeerTrusted in one behaviour
MaxReads == 1         \* calls of Envelopes and Messages in one behaviour

MaxNow == MinNow + ClockSpan

(* ------------------- constants of package whisperv5 ------------------- *)
UintMod == 64             \* uint32 wraps modulo this
SynchAllowance == 2
MaxMessageLength == 2
AESNonceMaxLength == 1
saltLength == 1
MinimumPoW == 2
EnvelopeVersion == 0
aesKeyLength == 1

U32(x) == (x + 4 * UintMod) % UintMod

(* ------------------------------ envelopes ----------------------------- *)
NoPoW == -1    \* Envelope.pow not computed yet
NoArg == -1    \* calculatePoW was not called by add

Procs == 1 .. MaxCalls

\* Envelope.Ver(): the version bytes read as a little-endian integer
RECURSIVE bytesToIntLittleEndianFrom(_, _, _)
bytesToIntLittleEndianFrom(b, i, mul) ==
    IF i > Len(b) THEN 0
    ELSE b[i] * mul + bytesToIntLittleEndianFrom(b, i + 1, mul * 256)

bytesToIntLittleEndian(b) == bytesToIntLittleEndianFrom(b, 1, 1)

Ver(e) == bytesToIntLittleEndian(e.Version)

\* the content hash: a function of every field of the envelope but the
\* cached score, without collisions
Hash(e) ==
    [Expiry |-> e.Expiry, TTL |-> e.TTL, Version |-> e.Version, Data |-> e.Data,
     AESNonce |-> e.AESNonce, Salt |-> e.Salt, work |-> e.work]

\* the score of an envelope for a time-to-live lengthened by diff
calculatePoW(e, diff) ==
    [e EXCEPT !.pow = e.work \div (e.Data * (e.TTL + diff))]

\* Envelope.PoW(): the cached score, computed on first use
PoW(e) == IF e.pow = NoPoW THEN calculatePoW(e, 0) ELSE e

(* ----------------------- the inputs of add ---------------------------- *)
Envelope(expiry, ttl, version, data, nonce, salt, work) ==
    [Expiry |-> expiry, TTL |-> ttl, Version |-> version, Data |-> data,
     AESNonce |-> nonce, Salt |-> salt, work |-> work, pow |-> NoPoW]

NoEnvelope == Envelope(0, 0, <<>>, 0, 0, 0, 0)

\* expiry timestamps on both sides of every time boundary of add
Expiries ==
    {MinNow - 2 * SynchAllowance - 1, MinNow - 2 * SynchAllowance, MinNow - 1,
     MinNow, MinNow + 1, MinNow + SynchAllowance + 1, MinNow + SynchAllowance + 2}

\* times to live: short ones, and one longer than any expiry timestamp
TTLs == {1, 3, UintMod - 4}

Works == {2, 12, 40}

\* envelopes of admissible sizes, of every time shape
TimedInputs ==
    {Envelope(x, t, v, MaxMessageLength, AESNonceMaxLength, saltLength, w) :
        x \in Expiries, t \in TTLs, v \in {<<0, 0, 0, 0>>}, w \in Works}

\* envelopes that are neither stale nor future-dated, of every size shape
SizedInputs ==
    {Envelope(MaxNow, 3, v, d, n, s, w) :
        v \in {<<0, 0, 0, 0>>, <<1>>, <<0, 0, 0, 0, 0>>},
        d \in {MaxMessageLength, MaxMessageLength + 1},
        n \in {AESNonceMaxLength, AESNonceMaxLength + 1},
        s \in {saltLength, saltLength + 1},
        w \in {2, 40}}

Inputs == TimedInputs \cup SizedInputs

\* envelopes of admissible sizes that expire while the clock runs or later,
\* of a supported and of an unsupported version, of low and of sufficient work
PoolInputs ==
    {Envelope(x, 1, v, MaxMessageLength, AESNonceMaxLength, saltLength, w) :
        x \in {MinNow, MinNow + SynchAllowance + 1},
        v \in {<<0>>, <<1>>}, w \in {2, 12}}

(* ------------------------------ the state ----------------------------- *)
VARIABLES
    now,          \* time.Now().Unix(), as a uint32
    test,         \* Whisper.test
    envelopes,    \* Whisper.envelopes: hash -> envelope
    messages,     \* Whisper.messages: hash -> decrypted message
    expirations,  \* Whisper.expirations: timestamp -> set of hashes
    poolMu,       \* Whisper.poolMu: who holds it
    quit,         \* Whisper.quit is closed
    upc,          \* where the goroutine running update() is
    pc,           \* where each call of add is
    loc,          \* the locals of each call of add in flight
    ret,          \* what add returned, in the state its return leads to
    pending,      \* NotifyWatchers goroutines spawned and not finished: hash -> number
    callback,     \* the hash whose goroutine is inside addDecryptedMessage
    passed,       \* history: hash -> calls of add that returned after the pool step
    spawned,      \* history: hash -> NotifyWatchers goroutines spawned
    swept,        \* history: hash -> removals from the envelope map by expire
    symKeys,      \* Whisper.symKeys: name -> derived key
    keyMu,        \* Whisper.keyMu: the goroutine that holds it for writing, or 0
    kpc,          \* where each call into the key store is
    kloc,         \* the arguments, locals and result of each call into the key store
    privateKeys,  \* Whisper.privateKeys: public key -> key pair
    icall,        \* where each call of NewIdentity or DeleteIdentity is, and its locals
    peers,        \* Whisper.peers: the active peers
    trusted,      \* Peer.trusted of every peer created
    peerMu,       \* Whisper.peerMu: the call that holds it, or 0
    mcall,        \* where each call of MarkPeerTrusted is, and its locals
    rcall         \* where each call of Envelopes or Messages is

poolVars == <<envelopes, messages, expirations>>
histVars == <<passed, spawned, swept>>
addVars == <<pc, loc>>
keyVars == <<symKeys, keyMu, kpc, kloc>>
nodeVars == <<now, test, envelopes, messages, expirations, poolMu, quit, upc, pc, loc,
              ret, pending, callback, passed, spawned, swept>>
extVars == <<privateKeys, icall, peers, trusted, peerMu, mcall, rcall>>
vars == <<nodeVars, keyVars, extVars>>

Free == [kind |-> "free", id |-> 0]
Held(kind, id) == [kind |-> kind, id |-> id]

NoLocals == [env |-> NoEnvelope, now |-> 0, powArg |-> NoArg, cached |-> FALSE]
NoReturn == [env |-> NoEnvelope, now |-> 0, powArg |-> NoArg, result |-> "none"]

Count(f, k) == IF k \in DOMAIN f THEN f[k] ELSE 0
Inc(f, k) == IF k \in DOMAIN f THEN [f EXCEPT ![k] = @ + 1] ELSE f @@ (k :> 1)
Dec(f, k) == IF f[k] = 1 THEN [x \in DOMAIN f \ {k} |-> f[x]] ELSE [f EXCEPT ![k] = @ - 1]

KeyProcs == 1 .. MaxKeyCalls

NoKeyCall ==
    [op |-> "none", name |-> "", key |-> <<>>, derived |-> <<>>, had |-> FALSE,
     result |-> "none"]

IdProcs == 1 .. MaxIdCalls
MarkProcs == 1 .. MaxMarks
ReadProcs == 1 .. MaxReads
PeerPtrs == 1 .. MaxPeers

NilInt == -1   \* a nil *big.Int

\* a nil *ecdsa.PrivateKey
NilKey == [nil |-> TRUE, D |-> NilInt, X |-> NilInt, Y |-> NilInt]

\* crypto.GenerateKey was not called
NotGenerated == [key |-> NilKey, err |-> FALSE]

NoIdCall ==
    [pc |-> "idle", op |-> "none", attempts |-> 0, first |-> NotGenerated, key |-> NilKey,
     err |-> FALSE, result |-> "none"]
NoMarkCall == [pc |-> "idle", peerID |-> <<>>, p |-> 0, result |-> "none"]
NoReadCall == [pc |-> "idle", op |-> "none"]

\* NewWhisper
Init ==
    /\ now = MinNow
    /\ test \in BOOLEAN
    /\ envelopes = <<>>
    /\ messages = <<>>
    /\ expirations = <<>>
    /\ poolMu = Free
    /\ quit = FALSE
    /\ upc = "off"
    /\ pc = [p \in Procs |-> "idle"]
    /\ loc = [p \in Procs |-> NoLocals]
    /\ ret = NoReturn
    /\ pending = <<>>
    /\ callback = {}
    /\ passed = <<>>
    /\ spawned = <<>>
    /\ swept = <<>>
    /\ symKeys = <<>>
    /\ keyMu = 0
    /\ kpc = [p \in KeyProcs |-> "idle"]
    /\ kloc = [p \in KeyProcs |-> NoKeyCall]
    /\ privateKeys = <<>>
    /\ icall = [i \in IdProcs |-> NoIdCall]
    /\ peers = {}
    /\ trusted = <<>>
    /\ peerMu = 0
    /\ mcall = [m \in MarkProcs |-> NoMarkCall]
    /\ rcall = [r \in ReadProcs |-> NoReadCall]

(* ------------------------- add: the checks ---------------------------- *)
\* sent := envelope.Expiry - envelope.TTL, in uint32
Sent(e) == U32(e.Expiry - e.TTL)

\* if sent > now
FutureDated(e, t) == Sent(e) > t

\* mutant: the allowance bound taken inclusively
TooFarInFutureInclusive(e, t) == U32(Sent(e) - SynchAllowance) >= t

\* if sent-SynchAllowance > now
TooFarInFuture(e, t) == U32(Sent(e) - SynchAllowance) > t

\* the argument of envelope.calculatePoW in add
PoWAdjustment(e, t) == U32(Sent(e) - t + 1)

\* mutant: the expiry is not compared with the clock
ExpiredNever(e, t) == FALSE

\* if envelope.Expiry < now
Expired(e, t) == e.Expiry < t

\* if envelope.Expiry+SynchAllowance*2 < now
VeryOld(e, t) == U32(e.Expiry + SynchAllowance * 2) < t

\* mutant: the salt is not checked
SizeErrorNoSalt(e) ==
    IF e.Data > MaxMessageLength THEN "errHuge"
    ELSE IF Len(e.Version) > 4 THEN "errVersion"
    ELSE IF e.AESNonce > AESNonceMaxLength THEN "errNonce"
    ELSE "ok"

\* the four size checks, in the order add makes them
SizeError(e) ==
    IF e.Data > MaxMessageLength THEN "errHuge"
    ELSE IF Len(e.Version) > 4 THEN "errVersion"
    ELSE IF e.AESNonce > AESNonceMaxLength THEN "errNonce"
    ELSE IF e.Salt > saltLength THEN "errSalt"
    ELSE "ok"

\* mutant: the test flag read without its negation
LowPoWInTest(e, isTest) == PoW(e).pow < MinimumPoW /\ isTest

\* if envelope.PoW() < MinimumPoW && !wh.test
LowPoW(e, isTest) == PoW(e).pow < MinimumPoW /\ ~isTest

\* add up to the computation of the hash: the result it returns there, or
\* "pass", with the envelope as the checks leave it
AddOutcome(e, t, isTest) ==
    LET recalc == FutureDated(e, t) /\ ~TooFarInFuture(e, t)
        arg == IF recalc THEN PoWAdjustment(e, t) ELSE NoArg
        e1 == IF recalc THEN calculatePoW(e, arg) ELSE e
        out(r, env) == [result |-> r, env |-> env, powArg |-> arg]
    IN  IF FutureDated(e, t) /\ TooFarInFuture(e, t) THEN out("errFuture", e)
        ELSE IF Expired(e1, t)
             THEN IF VeryOld(e1, t) THEN out("errOld", e1) ELSE out("dropExpired", e1)
        ELSE IF SizeError(e1) # "ok" THEN out(SizeError(e1), e1)
        ELSE IF LowPoW(e1, isTest) THEN out("dropPoW", PoW(e1))
        ELSE out("pass", PoW(e1))

Errors == {"errFuture", "errOld", "errHuge", "errVersion", "errNonce", "errSalt"}
Drops == {"dropExpired", "dropPoW"}

\* a call of add up to its return or to wh.poolMu.Lock()
AddChecks(p, e) ==
    /\ pc[p] = "idle"
    /\ \A q \in Procs : q < p => pc[q] # "idle"    \* the calls are numbered as they start
    /\ LET o == AddOutcome(e, now, test)
       IN  IF o.result = "pass"
           THEN /\ pc' = [pc EXCEPT ![p] = "insert"]
                /\ loc' = [loc EXCEPT ![p] = [env |-> o.env, now |-> now,
                                              powArg |-> o.powArg, cached |-> FALSE]]
                /\ ret' = NoReturn
           ELSE /\ pc' = [pc EXCEPT ![p] = "done"]
                /\ ret' = [env |-> o.env, now |-> now, powArg |-> o.powArg,
                           result |-> o.result]
                /\ loc' = loc
    /\ UNCHANGED <<now, test, poolVars, poolMu, quit, upc, pending, callback,
                   histVars, keyVars, extVars>>

(* ------------------------- add: the pool step ------------------------- *)
\* wh.envelopes[hash] = envelope
PutEnvelope(pool, e) == (Hash(e) :> e) @@ pool

\* mutant: the bucket is created when missing, and the hash is not added to it
PutExpirationEmpty(exp, e) ==
    IF e.Expiry \in DOMAIN exp THEN exp ELSE (e.Expiry :> {}) @@ exp

\* the bucket of the envelope's expiry, created when missing, with the hash in it
PutExpiration(exp, e) ==
    LET bucket == IF e.Expiry \in DOMAIN exp THEN exp[e.Expiry] ELSE {}
    IN  (e.Expiry :> (bucket \cup {Hash(e)})) @@ exp

\* mutant: the pool is not consulted
AlreadyCachedNever(pool, e) == FALSE

\* _, alreadyCached := wh.envelopes[hash]
AlreadyCached(pool, e) == Hash(e) \in DOMAIN pool

\* from wh.poolMu.Lock() to the line before wh.poolMu.Unlock()
AddInsert(p) ==
    /\ pc[p] = "insert"
    /\ poolMu = Free
    /\ poolMu' = Held("add", p)
    /\ LET e == loc[p].env
           alreadyCached == AlreadyCached(envelopes, e)
       IN  /\ loc' = [loc EXCEPT ![p].cached = alreadyCached]
           /\ IF alreadyCached
              THEN UNCHANGED <<envelopes, expirations>>
              ELSE /\ envelopes' = PutEnvelope(envelopes, e)
                   /\ expirations' = PutExpiration(expirations, e)
    /\ pc' = [pc EXCEPT ![p] = "unlock"]
    /\ ret' = NoReturn
    /\ UNCHANGED <<now, test, messages, quit, upc, pending, callback,
                   histVars, keyVars, extVars>>

\* mutant: add goes on to postEvent with the pool lock held
AddUnlockKept(p) ==
    /\ pc[p] = "unlock"
    /\ pc' = [pc EXCEPT ![p] = "post"]
    /\ ret' = NoReturn
    /\ UNCHANGED <<now, test, poolVars, poolMu, quit, upc, loc, pending, callback, histVars,
                   keyVars, extVars>>

\* wh.poolMu.Unlock()
AddUnlock(p) ==
    /\ pc[p] = "unlock"
    /\ poolMu = Held("add", p)
    /\ poolMu' = Free
    /\ pc' = [pc EXCEPT ![p] = "post"]
    /\ ret' = NoReturn
    /\ UNCHANGED <<now, test, poolVars, quit, upc, loc, pending, callback,
                   histVars, keyVars, extVars>>

\* mutant: the version is not looked at
DispatchedAlways(e) == TRUE

\* postEvent: if envelope.Ver() <= EnvelopeVersion
Dispatched(e) == Ver(e) <= EnvelopeVersion

\* the rest of add: postEvent for a new envelope, and return nil
AddPostEvent(p) ==
    /\ pc[p] = "post"
    /\ LET e == loc[p].env
           spawn == ~loc[p].cached /\ Dispatched(e)
       IN  /\ pending' = IF spawn THEN Inc(pending, Hash(e)) ELSE pending
           /\ spawned' = IF spawn THEN Inc(spawned, Hash(e)) ELSE spawned
           /\ passed' = Inc(passed, Hash(e))
           /\ ret' = [env |-> e, now |-> loc[p].now, powArg |-> loc[p].powArg,
                      result |-> IF loc[p].cached THEN "cached" ELSE "inserted"]
    /\ pc' = [pc EXCEPT ![p] = "done"]
    /\ loc' = [loc EXCEPT ![p] = NoLocals]
    /\ UNCHANGED <<now, test, poolVars, poolMu, quit, upc, callback, swept, keyVars, extVars>>

(* ------------------------ the sweeper: update, expire ----------------- *)
\* Start: go w.update()
Start ==
    /\ upc = "off"
    /\ upc' = "select"
    /\ ret' = NoReturn
    /\ UNCHANGED <<now, test, poolVars, poolMu, quit, addVars, pending, callback,
                   histVars, keyVars, extVars>>

\* Stop: close(w.quit)
Stop ==
    /\ ~quit
    /\ quit' = TRUE
    /\ ret' = NoReturn
    /\ UNCHANGED <<now, test, poolVars, poolMu, upc, addVars, pending, callback,
                   histVars, keyVars, extVars>>

\* update: the select takes case <-expire.C
UpdateTick ==
    /\ upc = "select"
    /\ upc' = "expire"
    /\ ret' = NoReturn
    /\ UNCHANGED <<now, test, poolVars, poolMu, quit, addVars, pending, callback,
                   histVars, keyVars, extVars>>

\* update: the select takes case <-w.quit
UpdateQuit ==
    /\ upc = "select"
    /\ quit
    /\ upc' = "exit"
    /\ ret' = NoReturn
    /\ UNCHANGED <<now, test, poolVars, poolMu, quit, addVars, pending, callback,
                   histVars, keyVars, extVars>>

\* the timestamps expire does not skip: not (then > now)
Due(exp, t) == {then \in DOMAIN exp : ~(then > t)}

\* the hashes expire deletes
DueHashes(exp, t) == UNION {exp[then] : then \in Due(exp, t)}

\* delete(w.envelopes, h) and delete(w.messages, h) for the hashes in gone
Without(m, gone) == [h \in DOMAIN m \ gone |-> m[h]]

\* w.expirations[then].Clear() for every due bucket
Cleared(exp, t) == [then \in DOMAIN exp |-> IF then \in Due(exp, t) THEN {} ELSE exp[then]]

\* history: one more removal for every hash the sweep deletes from the envelope map
CountSwept(sw, gone) ==
    [h \in DOMAIN sw \cup gone |-> Count(sw, h) + (IF h \in gone THEN 1 ELSE 0)]

\* expire, from w.poolMu.Lock() to the end of its loop
Expire ==
    /\ upc = "expire"
    /\ poolMu = Free
    /\ poolMu' = Held("expire", 0)
    /\ LET gone == DueHashes(expirations, now)
       IN  /\ envelopes' = Without(envelopes, gone)
           /\ messages' = Without(messages, gone)
           /\ expirations' = Cleared(expirations, now)
           /\ swept' = CountSwept(swept, gone \cap DOMAIN envelopes)
    /\ upc' = "unlock"
    /\ ret' = NoReturn
    /\ UNCHANGED <<now, test, quit, addVars, pending, callback, passed, spawned,
                   keyVars, extVars>>

\* expire: the deferred w.poolMu.Unlock(), and back to the select
ExpireUnlock ==
    /\ upc = "unlock"
    /\ poolMu = Held("expire", 0)
    /\ poolMu' = Free
    /\ upc' = "select"
    /\ ret' = NoReturn
    /\ UNCHANGED <<now, test, poolVars, quit, addVars, pending, callback,
                   histVars, keyVars, extVars>>

(* --------------- watcher dispatch and addDecryptedMessage ------------- *)
\* a NotifyWatchers goroutine ends without a decrypted message
NotifyWatchersNoMatch(h) ==
    /\ h \in DOMAIN pending
    /\ pending' = Dec(pending, h)
    /\ ret' = NoReturn
    /\ UNCHANGED <<now, test, poolVars, poolMu, quit, upc, addVars, callback,
                   histVars, keyVars, extVars>>

\* w.messages[msg.EnvelopeHash] = msg
PutMessage(msgs, h) == (h :> [EnvelopeHash |-> h]) @@ msgs

\* addDecryptedMessage, called by a NotifyWatchers goroutine: from
\* w.poolMu.Lock() to the store
AddDecryptedMessage(h) ==
    /\ h \in DOMAIN pending
    /\ poolMu = Free
    /\ poolMu' = Held("callback", 0)
    /\ pending' = Dec(pending, h)
    /\ callback' = {h}
    /\ messages' = PutMessage(messages, h)
    /\ ret' = NoReturn
    /\ UNCHANGED <<now, test, envelopes, expirations, quit, upc, addVars,
                   histVars, keyVars, extVars>>

\* addDecryptedMessage: the deferred w.poolMu.Unlock()
AddDecryptedMessageUnlock ==
    /\ poolMu = Held("callback", 0)
    /\ poolMu' = Free
    /\ callback' = {}
    /\ ret' = NoReturn
    /\ UNCHANGED <<now, test, poolVars, quit, upc, addVars, pending,
                   histVars, keyVars, extVars>>

(* ------------------------------ the clock ----------------------------- *)
\* a second passes
Tick ==
    /\ now < MaxNow
    /\ now' = now + 1
    /\ ret' = NoReturn
    /\ UNCHANGED <<test, poolVars, poolMu, quit, upc, addVars, pending, callback,
                   histVars, keyVars, extVars>>

\* Whisper.Envelopes(): every pooled envelope
Envelopes == {envelopes[h] : h \in DOMAIN envelopes}

(* ------------------------------ key store ----------------------------- *)
Names == {"k1", "k2"}
Passwords == {<<1>>, <<2>>}

Bytes(n) == [1 .. n -> {0, 1}]

RECURSIVE containsOnlyZerosFrom(_, _)
containsOnlyZerosFrom(data, i) ==
    IF i > Len(data) THEN TRUE
    ELSE IF data[i] # 0 THEN FALSE
    ELSE containsOnlyZerosFrom(data, i + 1)

containsOnlyZeros(data) == containsOnlyZerosFrom(data, 1)

validateSymmetricKey(k) == Len(k) > 0 /\ ~containsOnlyZeros(k)

RECURSIVE SumBytes(_)
SumBytes(b) == IF b = <<>> THEN 0 ELSE Head(b) + SumBytes(Tail(b))

\* pbkdf2.Key(password, salt, ..., keyLen, sha256.New): keyLen bytes that the
\* password and the salt determine
Pbkdf2(password, salt, keyLen) ==
    [i \in 1 .. keyLen |-> 1 + ((7 * SumBytes(password) + 3 * SumBytes(salt) + i) % 255)]

\* deriveKeyMaterial(key, version)
deriveKeyMaterial(key, version) ==
    IF version = 0
    THEN [derivedKey |-> Pbkdf2(key, <<>>, aesKeyLength), err |-> "ok"]
    ELSE [derivedKey |-> <<>>, err |-> "errUnknownVersion"]

\* DeriveOneTimeKey(key, salt, version)
DeriveOneTimeKey(key, salt, version) ==
    IF version = 0
    THEN [derivedKey |-> Pbkdf2(key, salt, aesKeyLength), err |-> "ok"]
    ELSE [derivedKey |-> <<>>, err |-> "errUnknownVersion"]

\* mutant: the nil test inverted
HasKeyInverted(keys, name) == name \in DOMAIN keys /\ keys[name] = <<>>

\* w.symKeys[name] != nil
HasKey(keys, name) == name \in DOMAIN keys /\ keys[name] # <<>>

\* mutant: no check under the lock
DoubleCheckSkipped(keys, name) == FALSE

\* the check under keyMu.Lock(): if w.symKeys[name] != nil
DoubleCheck(keys, name) == HasKey(keys, name)

\* w.symKeys[name] = derived
PutKey(keys, name, derived) == (name :> derived) @@ keys

\* delete(w.symKeys, name)
DropKey(keys, name) == [n \in DOMAIN keys \ {name} |-> keys[n]]

KeyCall(op, name, key, derived, had, result) ==
    [op |-> op, name |-> name, key |-> key, derived |-> derived, had |-> had,
     result |-> result]

\* the calls are numbered as they start
KeyIdle(p) == kpc[p] = "idle" /\ \A q \in KeyProcs : q < p => kpc[q] # "idle"

\* AddSymKey: if w.HasSymKey(name), the read made under keyMu.RLock()
AddSymKeyCheck(p, name, key) ==
    /\ KeyIdle(p)
    /\ keyMu = 0
    /\ LET had == HasKey(symKeys, name)
       IN  IF had
           THEN /\ kpc' = [kpc EXCEPT ![p] = "done"]
                /\ kloc' = [kloc EXCEPT ![p] =
                               KeyCall("AddSymKey", name, key, <<>>, had, "errExists")]
           ELSE /\ kpc' = [kpc EXCEPT ![p] = "derive"]
                /\ kloc' = [kloc EXCEPT ![p] =
                               KeyCall("AddSymKey", name, key, <<>>, had, "none")]
    /\ UNCHANGED <<nodeVars, extVars, symKeys, keyMu>>

\* AddSymKey: derived, err := deriveKeyMaterial(key, EnvelopeVersion)
AddSymKeyDerive(p) ==
    /\ kpc[p] = "derive"
    /\ kloc[p].op = "AddSymKey"
    /\ LET d == deriveKeyMaterial(kloc[p].key, EnvelopeVersion)
       IN  IF d.err # "ok"
           THEN /\ kpc' = [kpc EXCEPT ![p] = "done"]
                /\ kloc' = [kloc EXCEPT ![p].result = d.err]
           ELSE /\ kpc' = [kpc EXCEPT ![p] = "lock"]
                /\ kloc' = [kloc EXCEPT ![p].derived = d.derivedKey]
    /\ UNCHANGED <<nodeVars, extVars, symKeys, keyMu>>

\* the end of AddSymKey and of GenerateSymKey: from w.keyMu.Lock() to the
\* return statement, the deferred Unlock still to run
StoreSymKey(p) ==
    /\ kpc[p] = "lock"
    /\ keyMu = 0
    /\ keyMu' = p
    /\ IF DoubleCheck(symKeys, kloc[p].name)
       THEN /\ symKeys' = symKeys
            /\ kloc' = [kloc EXCEPT ![p].result = "errExists"]
       ELSE /\ symKeys' = PutKey(symKeys, kloc[p].name, kloc[p].derived)
            /\ kloc' = [kloc EXCEPT ![p].result = "ok"]
    /\ kpc' = [kpc EXCEPT ![p] = "unlock"]
    /\ UNCHANGED <<nodeVars, extVars>>

\* the deferred w.keyMu.Unlock() of AddSymKey, GenerateSymKey and DeleteSymKey
KeyUnlock(p) ==
    /\ kpc[p] = "unlock"
    /\ keyMu = p
    /\ keyMu' = 0
    /\ kpc' = [kpc EXCEPT ![p] = "done"]
    /\ UNCHANGED <<nodeVars, extVars, symKeys, kloc>>

\* buf[i] ^= buf2[i]
Xor(buf, buf2) == [i \in 1 .. Len(buf) |-> (buf[i] + buf2[i]) % 2]

\* GenerateSymKey up to w.keyMu.Lock(), for what crand.Read and randomize
\* give: the error it returns, or "ok" with the derived key
GenerateOutcome(readErr, buf, buf2) ==
    LET mixed == Xor(buf, buf2)
        key == SubSeq(mixed, 1, aesKeyLength)
        salt == SubSeq(mixed, aesKeyLength + 1, aesKeyLength * 2)
        d == DeriveOneTimeKey(key, salt, EnvelopeVersion)
    IN  IF readErr THEN [err |-> "errRead", derived |-> <<>>]
        ELSE IF ~validateSymmetricKey(buf) THEN [err |-> "errCryptoRand", derived |-> <<>>]
        ELSE IF ~validateSymmetricKey(buf2) THEN [err |-> "errMathRand", derived |-> <<>>]
        ELSE IF d.err # "ok" THEN [err |-> d.err, derived |-> <<>>]
        ELSE IF ~validateSymmetricKey(d.derivedKey) THEN [err |-> "errDerive", derived |-> <<>>]
        ELSE [err |-> "ok", derived |-> d.derivedKey]

\* GenerateSymKey: the random material and the derivation
GenerateSymKeyDerive(p, name, readErr, buf, buf2) ==
    /\ KeyIdle(p)
    /\ LET o == GenerateOutcome(readErr, buf, buf2)
           had == HasKey(symKeys, name)
       IN  IF o.err # "ok"
           THEN /\ kpc' = [kpc EXCEPT ![p] = "done"]
                /\ kloc' = [kloc EXCEPT ![p] =
                               KeyCall("GenerateSymKey", name, <<>>, <<>>, had, o.err)]
           ELSE /\ kpc' = [kpc EXCEPT ![p] = "lock"]
                /\ kloc' = [kloc EXCEPT ![p] =
                               KeyCall("GenerateSymKey", name, <<>>, o.derived, had, "none")]
    /\ UNCHANGED <<nodeVars, extVars, symKeys, keyMu>>

\* DeleteSymKey, the deferred Unlock still to run
DeleteSymKey(p, name) ==
    /\ KeyIdle(p)
    /\ keyMu = 0
    /\ keyMu' = p
    /\ symKeys' = DropKey(symKeys, name)
    /\ kpc' = [kpc EXCEPT ![p] = "unlock"]
    /\ kloc' = [kloc EXCEPT ![p] =
                   KeyCall("DeleteSymKey", name, <<>>, <<>>, HasKey(symKeys, name), "ok")]
    /\ UNCHANGED <<nodeVars, extVars>>

\* Whisper.HasSymKey(name)
HasSymKey(name) == HasKey(symKeys, name)

\* Whisper.GetSymKey(name): nil for a name that is not stored
GetSymKey(name) == IF name \in DOMAIN symKeys THEN symKeys[name] ELSE <<>>

\* the key store under calls of AddSymKey alone
AddKeyNext ==
    \/ \E p \in KeyProcs, n \in Names, k \in Passwords : AddSymKeyCheck(p, n, k)
    \/ \E p \in KeyProcs : AddSymKeyDerive(p)
    \/ \E p \in KeyProcs : StoreSymKey(p)
    \/ \E p \in KeyProcs : KeyUnlock(p)

AddKeySpec == Init /\ [][AddKeyNext]_vars

\* the key store under calls of AddSymKey, GenerateSymKey and DeleteSymKey
KeyNext ==
    \/ AddKeyNext
    \/ \E p \in KeyProcs, n \in Names, readErr \in BOOLEAN :
          \E buf \in Bytes(aesKeyLength * 2), buf2 \in Bytes(aesKeyLength * 2) :
             GenerateSymKeyDerive(p, n, readErr, buf, buf2)
    \/ \E p \in KeyProcs, n \in Names : DeleteSymKey(p, n)

KeySpec == Init /\ [][KeyNext]_vars

(* --------------------------- snapshot reads --------------------------- *)
\* the calls are numbered as they start
ReadIdle(r) == rcall[r].pc = "idle" /\ \A q \in ReadProcs : q < r => rcall[q].pc # "idle"

\* w.poolMu.RLock(): the lock with one more reader
RLock(mu) == IF mu = Free THEN Held("read", 1) ELSE Held("read", mu.id + 1)

\* a reader can take the read lock: no writer holds the lock
CanRLock(mu) == mu = Free \/ mu.kind = "read"

\* mutant: the read lock is not released
RUnlockKept(mu) == mu

\* the deferred w.poolMu.RUnlock(): the lock with one reader less
RUnlock(mu) == IF mu.id = 1 THEN Free ELSE Held("read", mu.id - 1)

\* Whisper.Messages(id) for a filter that exists and matches the messages in
\* match: every stored message that the filter matches
Messages(match) == {messages[h] : h \in DOMAIN messages \cap match}

\* Envelopes and Messages: w.poolMu.RLock() and the copy of the map
ReadLock(r, op) ==
    /\ ReadIdle(r)
    /\ CanRLock(poolMu)
    /\ poolMu' = RLock(poolMu)
    /\ rcall' = [rcall EXCEPT ![r] = [pc |-> "unlock", op |-> op]]
    /\ ret' = NoReturn
    /\ UNCHANGED <<now, test, poolVars, quit, upc, addVars, pending, callback, histVars,
                   keyVars, privateKeys, icall, peers, trusted, peerMu, mcall>>

\* Envelopes and Messages: the deferred w.poolMu.RUnlock()
ReadUnlock(r) ==
    /\ rcall[r].pc = "unlock"
    /\ poolMu' = RUnlock(poolMu)
    /\ rcall' = [rcall EXCEPT ![r].pc = "done"]
    /\ ret' = NoReturn
    /\ UNCHANGED <<now, test, poolVars, quit, upc, addVars, pending, callback, histVars,
                   keyVars, privateKeys, icall, peers, trusted, peerMu, mcall>>

(* ------------------------------ identities ---------------------------- *)
\* what crypto.GenerateKey can return: no key, keys that fail the validation
\* in each of its ways, and valid keys
PrivateKey(d, x, y) == [nil |-> FALSE, D |-> d, X |-> x, Y |-> y]

GeneratedKeys ==
    {NilKey, PrivateKey(NilInt, 1, 1), PrivateKey(0, 1, 1), PrivateKey(1, NilInt, 1),
     PrivateKey(1, 0, 1), PrivateKey(1, 1, 0), PrivateKey(1, 1, 1), PrivateKey(2, 1, 2)}

Generated == [key : GeneratedKeys, err : BOOLEAN]

\* ValidatePublicKey(&k.PublicKey)
ValidatePublicKey(k) == k.X # NilInt /\ k.Y # NilInt /\ k.X # 0 /\ k.Y # 0

\* validatePrivateKey(k)
validatePrivateKey(k) ==
    IF k.nil \/ k.D = NilInt \/ k.D = 0 THEN FALSE ELSE ValidatePublicKey(k)

\* common.ToHex(crypto.FromECDSAPub(&key.PublicKey))
PubKeyString(k) == <<k.X, k.Y>>

\* mutant: the first key is kept whatever it is
NeedsRetryNever(g) == FALSE

\* if err != nil || !validatePrivateKey(key)
NeedsRetry(g) == g.err \/ ~validatePrivateKey(g.key)

\* NewIdentity up to w.keyMu.Lock(), for what the two calls of
\* crypto.GenerateKey give: the attempts made, the key kept, and the panic
\* raised or "ok"
NewIdentityOutcome(g1, g2) ==
    LET retry == NeedsRetry(g1)
        g == IF retry THEN g2 ELSE g1
        out(r) == [attempts |-> IF retry THEN 2 ELSE 1, key |-> g.key, err |-> g.err,
                   result |-> r]
    IN  IF g.err THEN out("panicErr")
        ELSE IF ~validatePrivateKey(g.key) THEN out("panicInvalid")
        ELSE out("ok")

\* the calls are numbered as they start
IdIdle(i) == icall[i].pc = "idle" /\ \A q \in IdProcs : q < i => icall[q].pc # "idle"

\* the number by which a call of NewIdentity or DeleteIdentity holds keyMu
IdHolder(i) == MaxKeyCalls + i

\* NewIdentity: the generation of the key, its retry, and the panics
NewIdentityGenerate(i, g1, g2) ==
    /\ IdIdle(i)
    /\ LET o == NewIdentityOutcome(g1, g2)
       IN  icall' = [icall EXCEPT ![i] =
                        [pc |-> IF o.result = "ok" THEN "lock" ELSE "done",
                         op |-> "NewIdentity", attempts |-> o.attempts, first |-> g1,
                         key |-> o.key, err |-> o.err,
                         result |-> IF o.result = "ok" THEN "none" ELSE o.result]]
    /\ UNCHANGED <<nodeVars, keyVars, privateKeys, peers, trusted, peerMu, mcall, rcall>>

\* w.privateKeys[...] = key
PutIdentity(keys, k) == (PubKeyString(k) :> k) @@ keys

\* NewIdentity: from w.keyMu.Lock() to the return statement
NewIdentityStore(i) ==
    /\ icall[i].pc = "lock"
    /\ keyMu = 0
    /\ keyMu' = IdHolder(i)
    /\ privateKeys' = PutIdentity(privateKeys, icall[i].key)
    /\ icall' = [icall EXCEPT ![i].pc = "unlock", ![i].result = "ok"]
    /\ UNCHANGED <<nodeVars, symKeys, kpc, kloc, peers, trusted, peerMu, mcall, rcall>>

\* DeleteIdentity, the deferred Unlock still to run
DeleteIdentity(i, pub) ==
    /\ IdIdle(i)
    /\ keyMu = 0
    /\ keyMu' = IdHolder(i)
    /\ privateKeys' = [k \in DOMAIN privateKeys \ {pub} |-> privateKeys[k]]
    /\ icall' = [icall EXCEPT ![i] =
                    [pc |-> "unlock", op |-> "DeleteIdentity", attempts |-> 0,
                     first |-> NotGenerated, key |-> NilKey, err |-> FALSE,
                     result |-> "ok"]]
    /\ UNCHANGED <<nodeVars, symKeys, kpc, kloc, peers, trusted, peerMu, mcall, rcall>>

\* the deferred w.keyMu.Unlock() of NewIdentity and DeleteIdentity
IdentityUnlock(i) ==
    /\ icall[i].pc = "unlock"
    /\ keyMu = IdHolder(i)
    /\ keyMu' = 0
    /\ icall' = [icall EXCEPT ![i].pc = "done"]
    /\ UNCHANGED <<nodeVars, symKeys, kpc, kloc, privateKeys, peers, trusted, peerMu,
                   mcall, rcall>>

\* Whisper.HasIdentity(pubKey)
HasIdentity(pub) == pub \in DOMAIN privateKeys

\* the key store under calls of NewIdentity and DeleteIdentity
IdentityNext ==
    \/ \E i \in IdProcs, g1 \in Generated, g2 \in Generated : NewIdentityGenerate(i, g1, g2)
    \/ \E i \in IdProcs : NewIdentityStore(i)
    \/ \E i \in IdProcs, k \in GeneratedKeys : DeleteIdentity(i, PubKeyString(k))
    \/ \E i \in IdProcs : IdentityUnlock(i)

IdentitySpec == Init /\ [][IdentityNext]_vars

(* ------------------------------- peers -------------------------------- *)
\* p.peer.ID(), as bytes
PeerID(p) == <<p>>

\* the identifiers callers pass: those of the peers, and one of no peer
PeerIDs == {PeerID(p) : p \in PeerPtrs} \cup {<<0>>}

\* the connection lifecycle adds a new peer to w.peers, not trusted
PeerConnect(p) ==
    /\ p \notin DOMAIN trusted
    /\ peerMu = 0
    /\ peers' = peers \cup {p}
    /\ trusted' = (p :> FALSE) @@ trusted
    /\ UNCHANGED <<nodeVars, keyVars, privateKeys, icall, peerMu, mcall, rcall>>

\* the connection lifecycle removes a peer from w.peers
PeerDisconnect(p) ==
    /\ p \in peers
    /\ peerMu = 0
    /\ peers' = peers \ {p}
    /\ UNCHANGED <<nodeVars, keyVars, privateKeys, icall, trusted, peerMu, mcall, rcall>>

\* the calls are numbered as they start
MarkIdle(m) == mcall[m].pc = "idle" /\ \A q \in MarkProcs : q < m => mcall[q].pc # "idle"

\* mutant: the scan matches every peer
MatchesAny(active, peerID) == active

\* getPeer: the peers whose ID equals peerID
Matches(active, peerID) == {p \in active : PeerID(p) = peerID}

\* getPeer: w.peerMu.Lock() and the scan of w.peers, which ends at the first
\* peer of that ID it meets
GetPeer(m, peerID) ==
    /\ MarkIdle(m)
    /\ peerMu = 0
    /\ peerMu' = m
    /\ LET found == Matches(peers, peerID)
       IN  IF found = {}
           THEN mcall' = [mcall EXCEPT ![m] =
                             [pc |-> "unlock", peerID |-> peerID, p |-> 0, result |-> "none"]]
           ELSE \E p \in found :
                    mcall' = [mcall EXCEPT ![m] =
                                 [pc |-> "unlock", peerID |-> peerID, p |-> p,
                                  result |-> "none"]]
    /\ UNCHANGED <<nodeVars, keyVars, privateKeys, icall, peers, trusted, rcall>>

\* getPeer: the deferred w.peerMu.Unlock()
GetPeerUnlock(m) ==
    /\ mcall[m].pc = "unlock"
    /\ peerMu = m
    /\ peerMu' = 0
    /\ mcall' = [mcall EXCEPT ![m].pc = "mark"]
    /\ UNCHANGED <<nodeVars, keyVars, privateKeys, icall, peers, trusted, rcall>>

\* MarkPeerTrusted after getPeer: return err, or p.trusted = true and return nil
MarkPeerTrusted(m) ==
    /\ mcall[m].pc = "mark"
    /\ IF mcall[m].p = 0
       THEN /\ mcall' = [mcall EXCEPT ![m].pc = "done", ![m].result = "errNoPeer"]
            /\ trusted' = trusted
       ELSE /\ mcall' = [mcall EXCEPT ![m].pc = "done", ![m].result = "ok"]
            /\ trusted' = [trusted EXCEPT ![mcall[m].p] = TRUE]
    /\ UNCHANGED <<nodeVars, keyVars, privateKeys, icall, peers, peerMu, rcall>>

\* every step but the start of a call of add
Others ==
    \/ \E p \in Procs : AddInsert(p)
    \/ \E p \in Procs : AddUnlock(p)
    \/ \E p \in Procs : AddPostEvent(p)
    \/ Start
    \/ Stop
    \/ UpdateTick
    \/ UpdateQuit
    \/ Expire
    \/ ExpireUnlock
    \/ \E h \in DOMAIN pending : NotifyWatchersNoMatch(h)
    \/ \E h \in DOMAIN pending : AddDecryptedMessage(h)
    \/ AddDecryptedMessageUnlock
    \/ Tick

\* the node under a few callers sending envelopes the checks mostly let through
Next ==
    \/ \E p \in Procs, e \in PoolInputs : AddChecks(p, e)
    \/ Others

Spec == Init /\ [][Next]_vars

\* the node when the last of the calls sends an envelope of any time and size
\* shape
AdmitNext ==
    \/ \E p \in Procs, e \in PoolInputs : p < MaxCalls /\ AddChecks(p, e)
    \/ \E e \in Inputs : AddChecks(MaxCalls, e)
    \/ Others

AdmitSpec == Init /\ [][AdmitNext]_vars

\* the steps of the goroutine that runs update
Sweeper == UpdateTick \/ UpdateQuit \/ Expire \/ ExpireUnlock

\* the scheduling of the goroutines: the sweeper keeps running; a goroutine that
\* holds the pool lock reaches its Unlock; a call of add keeps running, and gets
\* the pool lock if the lock is free again and again. Nothing is assumed of the
\* NotifyWatchers goroutines before they hold the lock.
Fairness ==
    /\ WF_vars(Sweeper)
    /\ WF_vars(AddDecryptedMessageUnlock)
    /\ \A p \in Procs :
          SF_vars(AddInsert(p)) /\ WF_vars(AddUnlock(p)) /\ WF_vars(AddPostEvent(p))

LiveSpec == Spec /\ Fairness

(* ------------------- every operation that takes a lock ---------------- *)
\* one envelope that passes the checks and is due for the sweeper at once
LockInputs ==
    {Envelope(MinNow, 1, <<0>>, MaxMessageLength, AESNonceMaxLength, saltLength, 12)}

\* the pool under one call of add, the sweeper, the dispatch and the snapshot
\* reads
LockPool ==
    \/ \E e \in LockInputs : AddChecks(1, e)
    \/ AddInsert(1)
    \/ AddUnlock(1)
    \/ AddPostEvent(1)
    \/ Start
    \/ UpdateTick
    \/ Expire
    \/ ExpireUnlock
    \/ \E h \in DOMAIN pending : NotifyWatchersNoMatch(h)
    \/ \E h \in DOMAIN pending : AddDecryptedMessage(h)
    \/ AddDecryptedMessageUnlock
    \/ \E r \in ReadProcs, op \in {"Envelopes", "Messages"} : ReadLock(r, op)
    \/ \E r \in ReadProcs : ReadUnlock(r)

\* the key store under one call of AddSymKey and one of NewIdentity
LockKeys ==
    \/ \E n \in {"k1"}, k \in {<<1>>} : AddSymKeyCheck(1, n, k)
    \/ AddSymKeyDerive(1)
    \/ StoreSymKey(1)
    \/ KeyUnlock(1)
    \/ \E g \in {[key |-> PrivateKey(1, 1, 1), err |-> FALSE]} : NewIdentityGenerate(1, g, g)
    \/ NewIdentityStore(1)
    \/ IdentityUnlock(1)

\* the peer registry under one peer and calls of MarkPeerTrusted
LockPeers ==
    \/ PeerConnect(1)
    \/ PeerDisconnect(1)
    \/ \E m \in MarkProcs, id \in {PeerID(1), <<0>>} : GetPeer(m, id)
    \/ \E m \in MarkProcs : GetPeerUnlock(m)
    \/ \E m \in MarkProcs : MarkPeerTrusted(m)

\* the node under callers of every operation that takes one of the three locks
LockNext == LockPool \/ LockKeys \/ LockPeers

\* the node outside test mode
LockInit == Init /\ ~test

LockSpec == LockInit /\ [][LockNext]_vars

\* the peer registry under peers that come and go and calls of MarkPeerTrusted,
\* while a call of add fills the pool
PeerNext ==
    \/ \E p \in PeerPtrs : PeerConnect(p)
    \/ \E p \in PeerPtrs : PeerDisconnect(p)
    \/ \E m \in MarkProcs, id \in PeerIDs : GetPeer(m, id)
    \/ \E m \in MarkProcs : GetPeerUnlock(m)
    \/ \E m \in MarkProcs : MarkPeerTrusted(m)
    \/ \E e \in LockInputs : AddChecks(1, e)
    \/ AddInsert(1)
    \/ AddUnlock(1)
    \/ AddPostEvent(1)
    \/ \E h \in DOMAIN pending : NotifyWatchersNoMatch(h)
    \/ \E h \in DOMAIN pending : AddDecryptedMessage(h)
    \/ AddDecryptedMessageUnlock

PeerSpec == Init /\ [][PeerNext]_vars

(* ====================================================================== *)
(*                               the claims                               *)
(* ====================================================================== *)
\* a call of add for the hash is between its checks and its return
InFlight(h) == \E p \in Procs : pc[p] \in {"insert", "unlock", "post"} /\ Hash(loc[p].env) = h

\* two calls of add for the hash have returned after the pool step, none is in
\* flight, and no sweep has removed the envelope
TwiceAdded(h) == Count(passed, h) >= 2 /\ ~InFlight(h) /\ Count(swept, h) = 0

\* the step of a call of add under the pool lock, for an envelope already pooled
DuplicateInsert(p) ==
    pc[p] = "insert" /\ pc'[p] = "unlock" /\ Hash(loc[p].env) \in DOMAIN envelopes

\* the return of a call of add that found its envelope already pooled
DuplicateReturn(p) == pc[p] = "post" /\ pc'[p] = "done" /\ loc[p].cached

\* C1 as stated: after two calls of add with the same envelope that pass the
\* checks (and no sweep of it), the pool holds the envelope and exactly one
\* dispatch was spawned for it.
C1_Original ==
    \A h \in DOMAIN passed :
        TwiceAdded(h) => h \in DOMAIN envelopes /\ Count(spawned, h) = 1

\* C1, amended: after two calls of add with the same envelope that pass the
\* checks (and no sweep of it), the pool holds the envelope under its hash, and
\* the dispatches spawned for it are exactly one when its version is at most
\* EnvelopeVersion and none when it is above; the call that finds the envelope
\* pooled changes neither the pool nor the dispatches and returns success.
C1_Amended ==
    /\ [](\A h \in DOMAIN passed :
            TwiceAdded(h) =>
                /\ h \in DOMAIN envelopes
                /\ Hash(envelopes[h]) = h
                /\ Count(spawned, h) = IF Ver(h) <= EnvelopeVersion THEN 1 ELSE 0)
    /\ [][\A p \in Procs :
            /\ DuplicateInsert(p) => UNCHANGED <<poolVars, pending, spawned>>
            /\ DuplicateReturn(p) =>
                  /\ UNCHANGED <<poolVars, pending, spawned>>
                  /\ ret'.result = "cached"]_vars

C1_Witness ==
    \E h \in DOMAIN passed :
        /\ TwiceAdded(h)
        /\ Count(spawned, h) = 1
        /\ ret.result = "cached"
        /\ ret.env.Expiry = h.Expiry

\* C2: outside test mode every pooled envelope had a score of at least
\* MinimumPoW when add inserted it, the score being the one add recomputed if
\* the envelope was future-dated; in test mode no call is dropped for its score.
C2_PoWGate ==
    /\ \A p \in Procs :
          pc[p] \in {"insert", "unlock", "post"} =>
              LET e == loc[p].env
                  diff == IF loc[p].powArg = NoArg THEN 0 ELSE loc[p].powArg
              IN  /\ e.pow = e.work \div (e.Data * (e.TTL + diff))
                  /\ ~test => e.pow >= MinimumPoW
    /\ ~test => \A h \in DOMAIN envelopes : envelopes[h].pow >= MinimumPoW
    /\ test => ret.result # "dropPoW"
    /\ ret.result = "dropPoW" => ret.env.pow < MinimumPoW

C2_Witness ==
    /\ test
    /\ ret.result = "inserted"
    /\ ret.env.pow < MinimumPoW
    /\ Hash(ret.env) \in DOMAIN envelopes

\* a call of add has just returned
Returned == ret.result # "none"

\* expiry - ttl as an integer difference
IntSent(e) == e.Expiry - e.TTL

\* the score of the envelope for a time-to-live lengthened by diff
Score(e, diff) == e.work \div (e.Data * (e.TTL + diff))

\* the step is the return of a call of add with one of the results
Returns(results) == ret'.result \in results

\* C3: with sent = expiry - ttl, add returns the 'created in the future' error
\* when sent - allowance > now, and leaves the pool as it was; when
\* now < sent <= now + allowance it does not return that error, and the score
\* the PoW gate reads is the one recomputed with the argument sent - now + 1.
C3_FutureDating ==
    /\ [](Returned =>
            LET e == ret.env
                sent == IntSent(e)
                t == ret.now
            IN  /\ sent - SynchAllowance > t => ret.result = "errFuture"
                /\ (t < sent /\ sent <= t + SynchAllowance) =>
                      /\ ret.result # "errFuture"
                      /\ ret.powArg = sent - t + 1
                      /\ e.pow = Score(e, sent - t + 1)
                      /\ ret.result = "dropPoW" => e.pow < MinimumPoW
                      /\ (ret.result \in {"inserted", "cached"} /\ ~test)
                            => e.pow >= MinimumPoW)
    /\ [](\A p \in Procs :
            pc[p] \in {"insert", "unlock", "post"} =>
                LET e == loc[p].env
                    sent == IntSent(e)
                    t == loc[p].now
                IN  /\ ~(sent - SynchAllowance > t)
                    /\ (t < sent /\ sent <= t + SynchAllowance) =>
                          /\ loc[p].powArg = sent - t + 1
                          /\ e.pow = Score(e, sent - t + 1))
    /\ [][Returns({"errFuture"}) => UNCHANGED <<poolVars, pending, spawned>>]_vars

C3_Witness ==
    /\ ret.result = "inserted"
    /\ IntSent(ret.env) = ret.now + SynchAllowance - 1
    /\ ret.powArg = SynchAllowance
    /\ ret.env.pow < Score(ret.env, 0)

\* C4 as stated: for an envelope that is not future-dated (expiry - ttl is not
\* after now), add returns success without pooling the envelope when
\* expiry < now <= expiry + 2*allowance, returns the 'very old message' error
\* when expiry + 2*allowance < now, and neither when expiry >= now.
C4_Original ==
    Returned =>
        LET e == ret.env
            t == ret.now
        IN  IntSent(e) <= t =>
                /\ (e.Expiry < t /\ e.Expiry + 2 * SynchAllowance >= t)
                      => ret.result = "dropExpired"
                /\ e.Expiry + 2 * SynchAllowance < t => ret.result = "errOld"
                /\ e.Expiry >= t => ret.result \notin {"errOld", "dropExpired"}

\* C5: for an envelope that passes the future-dating and staleness checks, add
\* returns an error exactly when the payload is longer than MaxMessageLength, or
\* the version longer than 4 bytes, or the nonce longer than AESNonceMaxLength,
\* or the salt longer than saltLength, whatever its score.
C5_SizeChecks ==
    /\ (Returned /\ ret.result \notin {"errFuture", "errOld", "dropExpired"}) =>
          LET e == ret.env
          IN  ret.result \in Errors <=>
                 \/ e.Data > MaxMessageLength
                 \/ Len(e.Version) > 4
                 \/ e.AESNonce > AESNonceMaxLength
                 \/ e.Salt > saltLength
    /\ \A p \in Procs :
          pc[p] \in {"insert", "unlock", "post"} =>
              LET e == loc[p].env
              IN  /\ e.Data <= MaxMessageLength
                  /\ Len(e.Version) <= 4
                  /\ e.AESNonce <= AESNonceMaxLength
                  /\ e.Salt <= saltLength

C5_Witness ==
    /\ ret.result = "errSalt"
    /\ ret.env.Data = MaxMessageLength
    /\ Len(ret.env.Version) = 4
    /\ ret.env.AESNonce = AESNonceMaxLength
    /\ ret.env.Salt = saltLength + 1
    /\ Score(ret.env, 0) < MinimumPoW
    /\ ~test

\* the step is one execution of the loop of expire
SweepStep == upc = "expire" /\ upc' = "unlock"

\* the buckets that hold the hash
BucketsOf(exp, h) == {then \in DOMAIN exp : h \in exp[then]}

\* C6 as stated: after one execution of expire at time t, every envelope whose
\* expiry is <= t is absent from the envelope map and from the message map, and
\* every envelope whose expiry is > t is in the maps and the buckets as before.
C6_Original ==
    [][SweepStep =>
          /\ \A h \in DOMAIN envelopes' : h.Expiry > now
          /\ \A h \in DOMAIN messages' : h.Expiry > now
          /\ \A h \in DOMAIN envelopes \cup DOMAIN messages :
                h.Expiry > now =>
                    /\ h \in DOMAIN envelopes <=> h \in DOMAIN envelopes'
                    /\ h \in DOMAIN envelopes => envelopes'[h] = envelopes[h]
                    /\ h \in DOMAIN messages <=> h \in DOMAIN messages'
                    /\ h \in DOMAIN messages => messages'[h] = messages[h]
                    /\ BucketsOf(expirations', h) = BucketsOf(expirations, h)]_vars

\* C7: every hash in the envelope map is in exactly one expiration bucket, the
\* one of the envelope's expiry.
C7_OneBucket ==
    \A h \in DOMAIN envelopes : BucketsOf(expirations, h) = {envelopes[h].Expiry}

C7_Witness ==
    /\ Cardinality(DOMAIN expirations) = 2
    /\ \E h \in DOMAIN swept : h \notin DOMAIN envelopes
    /\ \E h \in DOMAIN envelopes : h \in DOMAIN messages

\* C8 as stated: once a sweep has removed an envelope from the pool, the message
\* map holds no decrypted message under that envelope's hash.
C8_Original ==
    \A h \in DOMAIN swept : h \notin DOMAIN envelopes => h \notin DOMAIN messages

StoreOps == {"AddSymKey", "GenerateSymKey"}

\* the step is the check and insertion of a call, under the key lock
StoreStep(p) == kpc[p] = "lock" /\ kpc'[p] = "unlock"

\* the step is the first check of a call of AddSymKey
FirstCheckStep(p) == kpc[p] = "idle" /\ kpc'[p] # "idle" /\ kloc'[p].op = "AddSymKey"

GenerationErrors ==
    {"errRead", "errCryptoRand", "errMathRand", "errDerive", "errUnknownVersion"}

\* C9 as stated: a call of AddSymKey or GenerateSymKey made when a key is
\* stored under its name, the name being checked before the derivation as well
\* as under the lock, fails with the duplicate-name error (unless the
\* generation of the key itself fails).
C9_Original ==
    \A p \in KeyProcs :
        (/\ kpc[p] = "done"
         /\ kloc[p].op \in StoreOps
         /\ kloc[p].had
         /\ kloc[p].result \notin GenerationErrors)
            => kloc[p].result = "errExists"

\* C9, amended: AddSymKey and GenerateSymKey never overwrite: the call whose
\* check under the key lock finds a key stored under the name fails with the
\* duplicate-name error and leaves every stored key as it was, and otherwise
\* it stores its key under that name alone; AddSymKey makes that check before
\* the derivation as well, GenerateSymKey under the lock only.
C9_Amended ==
    [][/\ \A n \in DOMAIN symKeys \cap DOMAIN symKeys' : symKeys'[n] = symKeys[n]
       /\ \A p \in KeyProcs :
            /\ StoreStep(p) =>
                  IF kloc[p].name \in DOMAIN symKeys
                  THEN kloc'[p].result = "errExists" /\ symKeys' = symKeys
                  ELSE /\ kloc'[p].result = "ok"
                       /\ DOMAIN symKeys' = DOMAIN symKeys \cup {kloc[p].name}
                       /\ symKeys'[kloc[p].name] = kloc[p].derived
            /\ (FirstCheckStep(p) /\ kloc'[p].name \in DOMAIN symKeys) =>
                  /\ kpc'[p] = "done"
                  /\ kloc'[p].result = "errExists"
                  /\ symKeys' = symKeys]_vars

C9_Witness ==
    \E p, q \in KeyProcs :
        /\ kpc[p] = "done" /\ kloc[p].op = "GenerateSymKey"
        /\ kloc[p].result = "errExists" /\ ~kloc[p].had
        /\ kpc[q] = "done" /\ kloc[q].op = "AddSymKey"
        /\ kloc[q].result = "ok" /\ kloc[q].name = kloc[p].name
        /\ symKeys[kloc[q].name] = kloc[q].derived

AllKeyCallsDone == \A p \in KeyProcs : kpc[p] = "done"

CallsFor(n) == {p \in KeyProcs : kloc[p].name = n}

\* C10: when calls of AddSymKey with the same, previously absent name have all
\* returned, exactly one of them succeeded, the others returned the
\* duplicate-name error, and the key stored under the name is the one derived
\* from the succeeding call's key.
C10_OneWinner ==
    AllKeyCallsDone =>
        \A n \in Names :
            LET calls == CallsFor(n)
                won == {p \in calls : kloc[p].result = "ok"}
                lost == {p \in calls : kloc[p].result = "errExists"}
            IN  calls # {} =>
                    /\ Cardinality(won) = 1
                    /\ Cardinality(lost) = Cardinality(calls) - 1
                    /\ n \in DOMAIN symKeys
                    /\ \A p \in won :
                          symKeys[n] = deriveKeyMaterial(kloc[p].key, EnvelopeVersion).derivedKey

C10_Witness ==
    /\ AllKeyCallsDone
    /\ \E n \in Names :
          /\ CallsFor(n) = KeyProcs
          /\ \A p \in KeyProcs : ~kloc[p].had
          /\ \E p, q \in KeyProcs : kloc[p].key # kloc[q].key

\* the operations that can be between taking a lock and releasing it
LockUsers ==
    {[kind |-> "add", id |-> p] : p \in Procs}
        \cup {[kind |-> "expire", id |-> 0], [kind |-> "callback", id |-> 0]}
        \cup {[kind |-> "read", id |-> r] : r \in ReadProcs}
        \cup {[kind |-> "symKey", id |-> p] : p \in KeyProcs}
        \cup {[kind |-> "identity", id |-> i] : i \in IdProcs}
        \cup {[kind |-> "getPeer", id |-> m] : m \in MarkProcs}

\* the operation is between taking the lock and releasing it
HoldsPoolMu(g) ==
    \/ g.kind = "add" /\ pc[g.id] = "unlock"
    \/ g.kind = "expire" /\ upc = "unlock"
    \/ g.kind = "callback" /\ callback # {}
    \/ g.kind = "read" /\ rcall[g.id].pc = "unlock"

HoldsKeyMu(g) ==
    \/ g.kind = "symKey" /\ kpc[g.id] = "unlock"
    \/ g.kind = "identity" /\ icall[g.id].pc = "unlock"

HoldsPeerMu(g) == g.kind = "getPeer" /\ mcall[g.id].pc = "unlock"

LocksHeld(g) ==
    (IF HoldsPoolMu(g) THEN {"poolMu"} ELSE {})
        \cup (IF HoldsKeyMu(g) THEN {"keyMu"} ELSE {})
        \cup (IF HoldsPeerMu(g) THEN {"peerMu"} ELSE {})

\* each lock is held exactly when an operation is between taking and releasing
\* it: by one writer, or (the pool lock) by readers alone
LocksMatchHolders ==
    LET poolHolders == {g \in LockUsers : HoldsPoolMu(g)}
        keyHolders == {g \in LockUsers : HoldsKeyMu(g)}
        peerHolders == {g \in LockUsers : HoldsPeerMu(g)}
    IN  /\ poolMu = Free <=> poolHolders = {}
        /\ poolMu # Free =>
              IF poolMu.kind = "read"
              THEN /\ \A g \in poolHolders : g.kind = "read"
                   /\ Cardinality(poolHolders) = poolMu.id
              ELSE poolHolders = {poolMu}
        /\ keyMu = 0 <=> keyHolders = {}
        /\ Cardinality(keyHolders) <= 1
        /\ peerMu = 0 <=> peerHolders = {}
        /\ Cardinality(peerHolders) <= 1

\* an operation has reached a Lock() and waits for the lock
WaitsForLock ==
    \/ \E p \in Procs : pc[p] = "insert"
    \/ upc = "expire"
    \/ \E p \in KeyProcs : kpc[p] = "lock"
    \/ \E i \in IdProcs : icall[i].pc = "lock"

\* the steps by which the holder of a lock releases it
PoolRelease ==
    \/ \E p \in Procs : AddUnlock(p)
    \/ ExpireUnlock
    \/ AddDecryptedMessageUnlock
    \/ \E r \in ReadProcs : ReadUnlock(r)

KeyRelease == (\E p \in KeyProcs : KeyUnlock(p)) \/ (\E i \in IdProcs : IdentityUnlock(i))

PeerRelease == \E m \in MarkProcs : GetPeerUnlock(m)

\* the steps of the operations that have begun
Progress ==
    \/ PoolRelease
    \/ KeyRelease
    \/ PeerRelease
    \/ \E p \in Procs : AddInsert(p) \/ AddPostEvent(p)
    \/ Expire
    \/ \E p \in KeyProcs : AddSymKeyDerive(p) \/ StoreSymKey(p)
    \/ \E i \in IdProcs : NewIdentityStore(i)
    \/ \E m \in MarkProcs : MarkPeerTrusted(m)

\* C11: no operation is between taking and releasing more than one of poolMu,
\* keyMu and peerMu; a lock that is held has a holder that can release it; and
\* when operations wait for a lock, some operation that has begun can step.
C11_OneLockNoDeadlock ==
    /\ \A g \in LockUsers : Cardinality(LocksHeld(g)) <= 1
    /\ LocksMatchHolders
    /\ poolMu # Free => ENABLED PoolRelease
    /\ keyMu # 0 => ENABLED KeyRelease
    /\ peerMu # 0 => ENABLED PeerRelease
    /\ WaitsForLock => ENABLED Progress

C11_Witness ==
    /\ poolMu # Free /\ poolMu.kind = "read"
    /\ keyMu # 0
    /\ peerMu # 0
    /\ pc[1] = "insert"
    /\ upc = "expire"
    /\ \E p \in KeyProcs : kpc[p] = "lock"

\* the sweeper's select takes the tick: update calls expire
TickTaken == upc = "select" /\ upc' = "expire"

\* C12 as stated: once Stop has closed the quit channel the sweeper takes no
\* further tick, so that no execution of expire begins after the signal.
C12_Original == [][quit => ~TickTaken]_vars

\* the step of a call of add under the pool lock, for an envelope not pooled
NewInsert(p) ==
    pc[p] = "insert" /\ pc'[p] = "unlock" /\ Hash(loc[p].env) \notin DOMAIN envelopes

\* the return of a call of add that inserted its envelope
NewReturn(p) == pc[p] = "post" /\ pc'[p] = "done" /\ ~loc[p].cached

\* C13: the call of add that finds its envelope not pooled puts it in the
\* envelope map and in the bucket of its expiry whatever its version, and then
\* spawns no dispatch when the version is above EnvelopeVersion and exactly one
\* when it is at or below.
C13_VersionGate ==
    [][\A p \in Procs :
          LET e == loc[p].env
              h == Hash(e)
              n == IF Ver(e) > EnvelopeVersion THEN 0 ELSE 1
          IN  /\ NewInsert(p) =>
                    /\ h \in DOMAIN envelopes' /\ envelopes'[h] = e
                    /\ e.Expiry \in DOMAIN expirations' /\ h \in expirations'[e.Expiry]
              /\ NewReturn(p) =>
                    /\ Count(spawned', h) = Count(spawned, h) + n
                    /\ Count(pending', h) = Count(pending, h) + n
                    /\ \A g \in (DOMAIN spawned' \cup DOMAIN pending') \ {h} :
                          /\ Count(spawned', g) = Count(spawned, g)
                          /\ Count(pending', g) = Count(pending, g)
                    /\ ret'.result = "inserted"]_vars

C13_Witness ==
    /\ ret.result = "inserted"
    /\ Ver(ret.env) > EnvelopeVersion
    /\ Hash(ret.env) \in DOMAIN envelopes
    /\ Hash(ret.env) \in expirations[ret.env.Expiry]
    /\ Count(spawned, Hash(ret.env)) = 0
    /\ \E g \in DOMAIN spawned : Ver(g) <= EnvelopeVersion /\ spawned[g] = 1

\* the step in which a call of add runs postEvent and returns
PostStep(p) == pc[p] = "post" /\ pc'[p] = "done"

\* C14: add runs postEvent, and so spawns the dispatch, when it no longer holds
\* the pool lock; from there it returns whatever the dispatches do; and every
\* call of add that passed the checks returns, although no NotifyWatchers
\* goroutine is required to take a step.
C14_AddNeverWaits ==
    /\ [][\A p \in Procs : PostStep(p) => poolMu # Held("add", p)]_vars
    /\ [](\A p \in Procs : pc[p] = "post" => ENABLED AddPostEvent(p))
    /\ \A p \in Procs : (pc[p] \in {"insert", "unlock", "post"}) ~> (pc[p] = "done")

C14_Witness ==
    /\ ret.result = "inserted"
    /\ Hash(ret.env) \in DOMAIN pending
    /\ poolMu = Held("expire", 0)
    /\ messages = <<>>

\* a key pair with a non-zero private scalar and a public point whose
\* coordinates are both non-zero
ValidIdentity(k) ==
    /\ ~k.nil
    /\ k.D \notin {NilInt, 0}
    /\ k.X \notin {NilInt, 0}
    /\ k.Y \notin {NilInt, 0}

Panics == {"panicErr", "panicInvalid"}

\* the step is the generation of the key by a call of NewIdentity
GenerateStep(i) == icall[i].pc = "idle" /\ icall'[i].op = "NewIdentity"

\* the step is the insertion of the key by a call of NewIdentity
IdentityStoreStep(i) == icall[i].pc = "lock" /\ icall'[i].pc = "unlock"

\* C15: NewIdentity generates a key once, and a second time exactly when the
\* first generation returned an error or a key that fails validation; when the
\* last generation returned an error or an invalid key the call panics and the
\* identity map is as before; otherwise it stores that key under its public
\* key; so every stored identity is valid.
C15_ValidIdentity ==
    /\ [](\A pub \in DOMAIN privateKeys :
            ValidIdentity(privateKeys[pub]) /\ PubKeyString(privateKeys[pub]) = pub)
    /\ [](\A i \in IdProcs :
            icall[i].op = "NewIdentity" =>
                LET c == icall[i]
                    firstBad == c.first.err \/ ~ValidIdentity(c.first.key)
                    lastBad == c.err \/ ~ValidIdentity(c.key)
                IN  /\ c.attempts = IF firstBad THEN 2 ELSE 1
                    /\ c.attempts = 1 => c.key = c.first.key /\ c.err = c.first.err
                    /\ lastBad <=> c.result \in Panics
                    /\ lastBad => c.pc = "done"
                    /\ c.pc = "done" /\ ~lastBad => c.result = "ok")
    /\ [][\A i \in IdProcs :
            /\ GenerateStep(i) => privateKeys' = privateKeys
            /\ IdentityStoreStep(i) =>
                  /\ ValidIdentity(icall[i].key)
                  /\ DOMAIN privateKeys' = DOMAIN privateKeys \cup {PubKeyString(icall[i].key)}
                  /\ privateKeys'[PubKeyString(icall[i].key)] = icall[i].key
                  /\ \A pub \in DOMAIN privateKeys \ {PubKeyString(icall[i].key)} :
                        privateKeys'[pub] = privateKeys[pub]]_vars

C15_Witness ==
    \E i, j \in IdProcs :
        /\ icall[i].pc = "done" /\ icall[i].result = "panicInvalid"
        /\ icall[i].attempts = 2 /\ ~icall[i].first.err
        /\ icall[j].pc = "done" /\ icall[j].result = "ok"
        /\ icall[j].attempts = 2 /\ icall[j].first.err
        /\ PubKeyString(icall[j].key) \in DOMAIN privateKeys

\* the step is the scan of the peers by a call of MarkPeerTrusted
ScanStep(m) == mcall[m].pc = "idle" /\ mcall'[m].pc = "unlock"

\* the step is the return of a call of MarkPeerTrusted
MarkStep(m) == mcall[m].pc = "mark" /\ mcall'[m].pc = "done"

\* C16: MarkPeerTrusted finds a peer exactly when an active peer has the
\* identifier, and the peer it finds is such a peer; then it sets that peer's
\* trusted flag, changes no other flag and returns success; when it finds none
\* it returns an error and changes no flag; no step of it changes the envelope
\* map, the message map or the expiration buckets.
C16_MarkPeerTrusted ==
    [][\A m \in MarkProcs :
          /\ ScanStep(m) =>
                LET id == mcall'[m].peerID
                    found == mcall'[m].p
                IN  /\ found # 0 <=> \E p \in peers : PeerID(p) = id
                    /\ found # 0 => found \in peers /\ PeerID(found) = id
                    /\ UNCHANGED <<poolVars, trusted, peers>>
          /\ MarkStep(m) =>
                /\ IF mcall[m].p # 0
                   THEN /\ mcall'[m].result = "ok"
                        /\ trusted'[mcall[m].p]
                        /\ \A q \in DOMAIN trusted \ {mcall[m].p} : trusted'[q] = trusted[q]
                   ELSE /\ mcall'[m].result = "errNoPeer"
                        /\ trusted' = trusted
                /\ DOMAIN trusted' = DOMAIN trusted
                /\ UNCHANGED <<poolVars, peers>>
          /\ (mcall[m].pc = "unlock" /\ mcall'[m].pc = "mark") =>
                UNCHANGED <<poolVars, trusted, peers>>]_vars

C16_Witness ==
    /\ envelopes # <<>>
    /\ messages # <<>>
    /\ \E m, n \in MarkProcs :
          /\ mcall[m].pc = "done" /\ mcall[m].result = "ok"
          /\ mcall[m].p \in peers /\ trusted[mcall[m].p]
          /\ mcall[n].pc = "done" /\ mcall[n].result = "errNoPeer"
          /\ \E q \in DOMAIN trusted \ peers : PeerID(q) = mcall[n].peerID /\ ~trusted[q]

\* C17: a return of add with a protocol-violation error or as a silent drop
\* changes neither the envelope map, nor the message map, nor the expiration
\* buckets, and spawns no dispatch; the silent drops are the marginally expired
\* envelopes and, outside test mode, those of a score below MinimumPoW; and no
\* such envelope reaches the pool step.
C17_RejectionFrame ==
    /\ [][Returns(Errors \cup Drops) =>
             UNCHANGED <<envelopes, messages, expirations, pending, spawned, poolMu>>]_vars
    /\ [](ret.result = "dropExpired" =>
             /\ ret.env.Expiry < ret.now
             /\ ret.now <= ret.env.Expiry + 2 * SynchAllowance)
    /\ [](ret.result = "dropPoW" => ret.env.pow < MinimumPoW /\ ~test)
    /\ [](\A p \in Procs :
             pc[p] \in {"insert", "unlock", "post"} =>
                 /\ loc[p].env.Expiry >= loc[p].now
                 /\ test \/ loc[p].env.pow >= MinimumPoW)

C17_Witness ==
    /\ ret.result \in Drops
    /\ envelopes # <<>>
    /\ pending # <<>>
    /\ Hash(ret.env) \notin DOMAIN envelopes
    /\ \E p \in Procs : pc[p] = "done" /\ \A q \in Procs : pc[q] = "done"

\* C18 as stated: an envelope whose ttl is larger than its expiry (so that
\* expiry - ttl is negative) and whose expiry is >= now is not rejected with
\* the 'created in the future' error and does not have its score recomputed.
C18_Original ==
    (Returned /\ ret.env.TTL > ret.env.Expiry /\ ret.env.Expiry >= ret.now) =>
        /\ ret.result # "errFuture"
        /\ ret.powArg = NoArg

\* C19 as stated: an envelope that a sweep has removed from the pool is not
\* inserted again by a later add, is not dispatched a second time, and is
\* removed by the sweeper at most once.
C19_Original ==
    \A h \in DOMAIN swept :
        /\ h \notin DOMAIN envelopes
        /\ Count(spawned, h) <= 1
        /\ swept[h] <= 1

====
